---- MODULE Spec2Model ----
(***************************************************************************)
(* A model of the two-level cache of package cache (cache.go, strategy.go):*)
(* the local sync.Map tier (L1), the Redis tier (L2), the promotion and    *)
(* demotion strategies, LRU eviction, the cleanup goroutine and Close.     *)
(* Every public method is one atomic action; the clock (time.Now().Unix()) *)
(* advances between the actions.                                           *)
(***************************************************************************)
EXTENDS Integers, Sequences, FiniteSets, TLC

\* ---------------------------------------------------------------- bounds
Keys == {"x", "y"}

MaxTime == 2

MaxTTL == 2

MaxCount == 3

MaxCloseCalls == 2

\* ---------------------------------------------------------------- values
\* A user value is an interface{}: a dynamic type and a number.
IntV(n) == [type |-> "int", v |-> n]

FloatV(n) == [type |-> "float64", v |-> n]

NilValue == [type |-> "nil", v |-> 0]

UserValues == {IntV(1), FloatV(2)}

\* json.Marshal of an interface{} holding a number writes the number; the
\* dynamic type is not part of the text.
MarshalValue(val) == val.v

\* json.Unmarshal of a JSON number into an interface{} yields a float64.
UnmarshalValue(j) == FloatV(j)

\* ---------------------------------------------------------------- CacheItem
CacheItem(val, expire, create, access, count) ==
  [Value |-> val, ExpireTime |-> expire, CreateTime |-> create,
   AccessTime |-> access, AccessCount |-> count]

NoItem == CacheItem(NilValue, 0, 0, 0, 0)

\* json.Marshal(item): the struct tags name the fields of the JSON object.
Marshal(item) ==
  [value |-> MarshalValue(item.Value), expire_time |-> item.ExpireTime,
   create_time |-> item.CreateTime, access_time |-> item.AccessTime,
   access_count |-> item.AccessCount]

\* json.Unmarshal(jsonData, &item)
Unmarshal(j) ==
  CacheItem(UnmarshalValue(j.value), j.expire_time, j.create_time,
            j.access_time, j.access_count)

\* ---------------------------------------------------------------- strategies
FrequencyBasedStrategy(accessThreshold, timeWindow, idleTime) ==
  [kind |-> "frequency", accessThreshold |-> accessThreshold,
   timeWindow |-> timeWindow, idleTime |-> idleTime]

TimeWindowStrategy(accessThreshold, timeWindow, idleThreshold) ==
  [kind |-> "timeWindow", accessThreshold |-> accessThreshold,
   timeWindow |-> timeWindow, idleTime |-> idleThreshold]

\* Mutant: the promotion does not look at the age of the entry.
FrequencyShouldPromote_NoWindow(s, item, t) ==
  /\ s.accessThreshold > 0
  /\ s.timeWindow > 0
  /\ item.AccessCount >= s.accessThreshold

FrequencyShouldPromote(s, item, t) ==
  /\ s.accessThreshold > 0
  /\ s.timeWindow > 0
  /\ t - item.CreateTime <= s.timeWindow
  /\ item.AccessCount >= s.accessThreshold

\* Mutant: the idle time has to be exceeded, not reached.
FrequencyShouldDemote_Strict(s, item, t) ==
  /\ s.idleTime > 0
  /\ t - item.AccessTime > s.idleTime

FrequencyShouldDemote(s, item, t) ==
  /\ s.idleTime > 0
  /\ t - item.AccessTime >= s.idleTime

\* Mutant: the window is measured from the creation of the entry.
TimeWindowShouldPromote_FromCreation(s, item, t) ==
  /\ s.timeWindow > 0
  /\ s.accessThreshold > 0
  /\ item.CreateTime >= t - s.timeWindow
  /\ item.AccessCount >= s.accessThreshold

TimeWindowShouldPromote(s, item, t) ==
  /\ s.timeWindow > 0
  /\ s.accessThreshold > 0
  /\ item.AccessTime >= t - s.timeWindow
  /\ item.AccessCount >= s.accessThreshold

TimeWindowShouldDemote(s, item, t) ==
  /\ s.idleTime > 0
  /\ t - item.AccessTime >= s.idleTime

\* Dispatch of the PromotionStrategy / DemotionStrategy interface.
ShouldPromote(s, item, t) ==
  IF s.kind = "frequency" THEN FrequencyShouldPromote(s, item, t)
  ELSE TimeWindowShouldPromote(s, item, t)

ShouldDemote(s, item, t) ==
  IF s.kind = "frequency" THEN FrequencyShouldDemote(s, item, t)
  ELSE TimeWindowShouldDemote(s, item, t)

\* HybridStrategy: a list of strategies and requireAll.
HybridStrategy(requireAll, strategies) ==
  [kind |-> "hybrid", strategies |-> strategies, requireAll |-> requireAll]

RECURSIVE HybridShouldPromote(_, _, _)

RECURSIVE HybridShouldDemote(_, _, _)

\* strategy.(PromotionStrategy).ShouldPromote(item) of a child, itself a
\* hybrid or not.
ChildShouldPromote(s, item, t) ==
  IF s.kind = "hybrid" THEN HybridShouldPromote(s, item, t) ELSE ShouldPromote(s, item, t)

ChildShouldDemote(s, item, t) ==
  IF s.kind = "hybrid" THEN HybridShouldDemote(s, item, t) ELSE ShouldDemote(s, item, t)

\* Mutant: the loop returns after the first child.
PromoteAll_FirstOnly(strategies, i, item, t) ==
  i > Len(strategies) \/ ChildShouldPromote(strategies[i], item, t)

RECURSIVE PromoteAll(_, _, _, _)

\* The loop of requireAll: false at the first child, from the i-th on, that
\* does not hold, true at the end of the list.
PromoteAll(strategies, i, item, t) ==
  IF i > Len(strategies) THEN TRUE
  ELSE IF ~ChildShouldPromote(strategies[i], item, t) THEN FALSE
  ELSE PromoteAll(strategies, i + 1, item, t)

RECURSIVE PromoteAny(_, _, _, _)

\* The loop without requireAll: true at the first child that holds, false at
\* the end of the list.
PromoteAny(strategies, i, item, t) ==
  IF i > Len(strategies) THEN FALSE
  ELSE IF ChildShouldPromote(strategies[i], item, t) THEN TRUE
  ELSE PromoteAny(strategies, i + 1, item, t)

HybridShouldPromote(s, item, t) ==
  IF Len(s.strategies) = 0 THEN FALSE
  ELSE IF s.requireAll THEN PromoteAll(s.strategies, 1, item, t)
  ELSE PromoteAny(s.strategies, 1, item, t)

RECURSIVE DemoteAll(_, _, _, _)

DemoteAll(strategies, i, item, t) ==
  IF i > Len(strategies) THEN TRUE
  ELSE IF ~ChildShouldDemote(strategies[i], item, t) THEN FALSE
  ELSE DemoteAll(strategies, i + 1, item, t)

RECURSIVE DemoteAny(_, _, _, _)

DemoteAny(strategies, i, item, t) ==
  IF i > Len(strategies) THEN FALSE
  ELSE IF ChildShouldDemote(strategies[i], item, t) THEN TRUE
  ELSE DemoteAny(strategies, i + 1, item, t)

HybridShouldDemote(s, item, t) ==
  IF Len(s.strategies) = 0 THEN FALSE
  ELSE IF s.requireAll THEN DemoteAll(s.strategies, 1, item, t)
  ELSE DemoteAny(s.strategies, 1, item, t)

\* ---------------------------------------------------------------- maps
\* sync.Map and the Redis keyspace are partial functions on Keys.
Store(m, k, e) == [j \in (DOMAIN m) \cup {k} |-> IF j = k THEN e ELSE m[j]]

Remove(m, k) == [j \in (DOMAIN m) \ {k} |-> m[j]]

RemoveAll(m, ks) == [j \in (DOMAIN m) \ ks |-> m[j]]

EmptyMap == [j \in {} |-> NoItem]

\* ---------------------------------------------------------------- Redis
\* A Redis key holds the JSON text and the time at which Redis drops it
\* (NoExpiry: the key was written without EX).
NoExpiry == -1

\* Mutant: the expiry is counted from time 0, not from the time of the write.
RedisSet_ExpiryFromZero(r, k, data, ttl, t) ==
  Store(r, k, [data |-> data, expireAt |-> IF ttl > 0 THEN ttl ELSE NoExpiry])

\* redisClient.Set(ctx, key, jsonData, time.Duration(ttl)*time.Second):
\* go-redis sends EX only for a positive expiration.
RedisSet(r, k, data, ttl, t) ==
  Store(r, k, [data |-> data, expireAt |-> IF ttl > 0 THEN t + ttl ELSE NoExpiry])

\* Redis drops a key once its expiry time is reached.
RedisLive(r, k, t) ==
  /\ k \in DOMAIN r
  /\ (r[k].expireAt = NoExpiry \/ r[k].expireAt > t)

\* redisClient.TTL(ctx, key): the remaining seconds, -1 without expiry,
\* -2 for a missing key.
RedisTTL(r, k, t) ==
  IF ~RedisLive(r, k, t) THEN -2
  ELSE IF r[k].expireAt = NoExpiry THEN -1
  ELSE r[k].expireAt - t

RedisExpire(r, t) == [j \in {k \in DOMAIN r : RedisLive(r, k, t)} |-> r[j]]

\* ---------------------------------------------------------------- state
VARIABLES
  config,          \* c.config, fixed by NewMultiLevelCache
  now,             \* time.Now().Unix()
  localCache,      \* c.localCache: key -> CacheItem
  itemCount,       \* c.itemCount
  redis,           \* the Redis keyspace behind c.redisClient
  cleanupRoutine,  \* the cleanup goroutine: "none", "select" or "stopped"
  stopCleanup,     \* the channel c.stopCleanup: "open" or "closed"
  redisClosed,     \* c.redisClient.Close() was called
  panicked,        \* the process died of a runtime panic
  closeCalls,      \* number of Close calls that returned
  last,            \* what the last call did and returned
  written,         \* per key: the last successful Set not yet overwritten, deleted or cleared
  threads          \* per goroutine: where it stands inside the call it is executing

vars == <<config, now, localCache, itemCount, redis, cleanupRoutine, stopCleanup,
          redisClosed, panicked, closeCalls, last, written, threads>>

\* The mutable fields of *MultiLevelCache a method works on, and the log of
\* the entries the call deleted from L1 (why: "expired", "deleted", "demoted",
\* "evicted").
Cache == [localCache |-> localCache, itemCount |-> itemCount, redis |-> redis,
          removed |-> {}]

Removal(lc, ks, why) == {[key |-> k, item |-> lc[k], why |-> why] : k \in ks}

\* The goroutines that use the cache at the same time: two callers and the
\* cleanup goroutine started by NewMultiLevelCache.
Callers == {"A", "B"}

Ticker == "T"

\* A goroutine between calls.  pc is the statement it executes next, item the
\* envelope held in its local variable, victims the slice evictLRU sorted,
\* dels and dems the slices keysToDelete and keysToDemote (with the envelope
\* Range showed for each key), next the statement evictLRU returns to, calls
\* the number of calls started and done the calls that returned.
IdleThread ==
  [pc |-> "idle", op |-> "none", key |-> "", item |-> NoItem, victims |-> <<>>,
   dels |-> <<>>, dems |-> <<>>, next |-> "idle", calls |-> 0, done |-> <<>>]

NoThreads == [th \in Callers \cup {Ticker} |-> IdleThread]

\* ---------------------------------------------------------------- construction
NilStrategy == [kind |-> "nil", accessThreshold |-> 0, timeWindow |-> 0, idleTime |-> 0]

DefaultAccessThreshold == 3

DefaultTimeWindow == 60

DefaultIdleTime == 300

CacheConfig(l1, l2, maxL1, promotion, demotion) ==
  [EnableL1Cache |-> l1, EnableL2Cache |-> l2, MaxL1Size |-> maxL1,
   PromotionStrategy |-> promotion, DemotionStrategy |-> demotion]

\* NewMultiLevelCache: a nil strategy is replaced by the default one.
NewMultiLevelCache(cfg) ==
  [cfg EXCEPT
     !.PromotionStrategy =
        IF @.kind = "nil"
        THEN FrequencyBasedStrategy(DefaultAccessThreshold, DefaultTimeWindow, 0)
        ELSE @,
     !.DemotionStrategy =
        IF @.kind = "nil" THEN FrequencyBasedStrategy(0, 0, DefaultIdleTime) ELSE @]

\* The configurations the model is checked for.
Configs ==
  {CacheConfig(TRUE, FALSE, 1, NilStrategy, FrequencyBasedStrategy(0, 0, 1)),
   CacheConfig(FALSE, TRUE, 0, NilStrategy, NilStrategy),
   CacheConfig(TRUE, TRUE, 1, NilStrategy, FrequencyBasedStrategy(0, 0, 1)),
   CacheConfig(TRUE, TRUE, 1, FrequencyBasedStrategy(2, 1, 0), NilStrategy),
   CacheConfig(TRUE, TRUE, 0, FrequencyBasedStrategy(2, 1, 0),
               FrequencyBasedStrategy(0, 0, 1))}

\* ---------------------------------------------------------------- evictLRU
\* The order sync.Map.Range and the unstable sort.Slice leave among entries
\* that compare equal: some permutation of the keys.
Perms(S) == {s \in [1..Cardinality(S) -> S] : \A k \in S : \E i \in DOMAIN s : s[i] = k}

Ties == Perms(Keys)

Rank(tie, k) == CHOOSE i \in DOMAIN tie : tie[i] = k

\* Mutant: the sort is descending, the most recently used entry goes first.
SortsBefore_Descending(lc, tie, a, b) ==
  \/ lc[a].AccessTime > lc[b].AccessTime
  \/ lc[a].AccessTime = lc[b].AccessTime /\ Rank(tie, a) < Rank(tie, b)

\* items[i] ends before items[j] after sort.Slice with the less function
\* items[i].item.AccessTime < items[j].item.AccessTime.
SortsBefore(lc, tie, a, b) ==
  \/ lc[a].AccessTime < lc[b].AccessTime
  \/ lc[a].AccessTime = lc[b].AccessTime /\ Rank(tie, a) < Rank(tie, b)

\* The keys of items[0 .. evictCount-1].
Victims(lc, count, tie) ==
  LET n == Cardinality(DOMAIN lc)
      evictCount == IF count > n THEN n ELSE count
  IN {k \in DOMAIN lc :
        Cardinality({j \in DOMAIN lc : SortsBefore(lc, tie, j, k)}) < evictCount}

\* Mutant: the spill does not look at the residual TTL.
Spills_NoTTLCheck(item, up) ==
  config.EnableL2Cache /\ up

\* The spill of an entry leaving L1: written to Redis when L2 is enabled, the
\* call succeeds and the residual TTL is positive.
Spills(item, up) ==
  config.EnableL2Cache /\ up /\ item.ExpireTime - now > 0

evictLRU(c, count, tie, up) ==
  LET lc == c.localCache
      victims == Victims(lc, count, tie)
      spill == {k \in victims : Spills(lc[k], up)}
  IN [localCache |-> RemoveAll(lc, victims),
      itemCount |-> c.itemCount - Cardinality(victims),
      redis |-> [j \in (DOMAIN c.redis) \cup spill |->
                   IF j \in spill
                   THEN RedisSet(c.redis, j, Marshal(lc[j]), lc[j].ExpireTime - now, now)[j]
                   ELSE c.redis[j]],
      removed |-> c.removed \cup Removal(lc, victims, "evicted")]

\* Mutant: the cap check is off by one.
EnforceCap_OffByOne(c, tie, up) ==
  IF config.MaxL1Size > 0 /\ c.itemCount > config.MaxL1Size + 1
  THEN evictLRU(c, 1, tie, up)
  ELSE c

\* if c.config.MaxL1Size > 0 && c.itemCount > c.config.MaxL1Size { c.evictLRU(1) }
EnforceCap(c, tie, up) ==
  IF config.MaxL1Size > 0 /\ c.itemCount > config.MaxL1Size
  THEN evictLRU(c, 1, tie, up)
  ELSE c

\* ---------------------------------------------------------------- results
Outcome(op, key, found, value, ttl, err, tier, promoted, item, c) ==
  [op |-> op, key |-> key, found |-> found, value |-> value, ttl |-> ttl,
   err |-> err, tier |-> tier, promoted |-> promoted, item |-> item,
   removed |-> c.removed, arg |-> 0, l2 |-> "up"]

Miss(op, key, c) ==
  [c |-> c, ret |-> Outcome(op, key, FALSE, NilValue, 0, FALSE, "none", FALSE, NoItem, c)]

Done(op, key, err, c) ==
  [c |-> c, ret |-> Outcome(op, key, FALSE, NilValue, 0, err, "none", FALSE, NoItem, c)]

\* ---------------------------------------------------------------- Set
\* The L1 part of Set: the store and the cap check; up tells whether the
\* Redis calls of the eviction succeed.
SetL1(c, key, item, tie, up) ==
  IF config.EnableL1Cache
  THEN EnforceCap([c EXCEPT !.localCache = Store(@, key, item),
                            !.itemCount = IF key \in DOMAIN c.localCache
                                          THEN @ ELSE @ + 1],
                  tie, up)
  ELSE c

\* Mutant: the error of the Redis write is swallowed.
SetL2_SwallowsError(c, key, item, ttl, up) ==
  IF ~config.EnableL2Cache \/ ~up THEN Done("Set", key, FALSE, c)
  ELSE Done("Set", key, FALSE,
            [c EXCEPT !.redis = RedisSet(@, key, Marshal(item), ttl, now)])

\* The L2 part of Set: the Redis write, whose error Set returns.
SetL2(c, key, item, ttl, up) ==
  IF ~config.EnableL2Cache THEN Done("Set", key, FALSE, c)
  ELSE IF ~up THEN Done("Set", key, TRUE, c)
  ELSE Done("Set", key, FALSE,
            [c EXCEPT !.redis = RedisSet(@, key, Marshal(item), ttl, now)])

Set(c, key, value, ttl, tie, up) ==
  LET item == CacheItem(value, now + ttl, now, now, 0)
  IN SetL2(SetL1(c, key, item, tie, up), key, item, ttl, up)

\* Set when its own Redis write fails while the Redis calls of the eviction
\* before it succeeded.
SetWriteFails(c, key, value, ttl, tie) ==
  LET item == CacheItem(value, now + ttl, now, now, 0)
  IN SetL2(SetL1(c, key, item, tie, TRUE), key, item, ttl, FALSE)

\* Mutant: a deadline equal to now is not in the past.
SetWithExpiration_OffByOne(c, key, value, expiration, tie, up) ==
  IF expiration < now
  THEN Done("SetWithExpiration", key, FALSE, c)
  ELSE LET r == Set(c, key, value, expiration - now, tie, up)
       IN [r EXCEPT !.ret.op = "SetWithExpiration"]

SetWithExpiration(c, key, value, expiration, tie, up) ==
  IF expiration <= now
  THEN Done("SetWithExpiration", key, FALSE, c)
  ELSE LET r == Set(c, key, value, expiration - now, tie, up)
       IN [r EXCEPT !.ret.op = "SetWithExpiration"]

\* ---------------------------------------------------------------- Get
\* Mutant: the expired entry stays in L1.
DropExpired_Skips(c, key) == c

\* Mutant: the expired entry is deleted without the decrement.
DropExpired_KeepsCount(c, key) ==
  IF config.EnableL1Cache /\ key \in DOMAIN c.localCache
  THEN [c EXCEPT !.localCache = Remove(@, key),
                 !.removed = @ \cup Removal(c.localCache, {key}, "expired")]
  ELSE c

\* The L1 part of Get and GetWithTTL: an expired entry is deleted.
DropExpired(c, key) ==
  IF config.EnableL1Cache /\ key \in DOMAIN c.localCache
  THEN [c EXCEPT !.localCache = Remove(@, key), !.itemCount = @ - 1,
                 !.removed = @ \cup Removal(c.localCache, {key}, "expired")]
  ELSE c

\* Mutant: the L1 read does not look at the expiry time.
L1Live_NoExpiryCheck(c, key) ==
  /\ config.EnableL1Cache
  /\ key \in DOMAIN c.localCache

L1Live(c, key) ==
  /\ config.EnableL1Cache
  /\ key \in DOMAIN c.localCache
  /\ c.localCache[key].ExpireTime > now

\* Mutant: no double check of the envelope read from Redis.
L2Fresh_NoCheck(item) == TRUE

\* The double check of an envelope read from Redis: item.ExpireTime > now.
L2Fresh(item) == item.ExpireTime > now

Touch(item) == [item EXCEPT !.AccessTime = now, !.AccessCount = @ + 1]

\* An L2 hit: the promotion into L1 and the cap check after it.
Promote(c, key, item, tie, up) ==
  IF config.EnableL1Cache /\ ShouldPromote(config.PromotionStrategy, item, now)
  THEN EnforceCap([c EXCEPT !.localCache = Store(@, key, item), !.itemCount = @ + 1],
                  tie, up)
  ELSE c

Get(c, key, tie, up) ==
  IF L1Live(c, key)
  THEN LET item == Touch(c.localCache[key])
       IN [c |-> [c EXCEPT !.localCache = Store(@, key, item)],
           ret |-> Outcome("Get", key, TRUE, item.Value, 0, FALSE, "L1", FALSE, item, c)]
  ELSE LET c1 == DropExpired(c, key)
       IN IF ~config.EnableL2Cache \/ ~up \/ ~RedisLive(c1.redis, key, now)
          THEN Miss("Get", key, c1)
          ELSE LET got == Unmarshal(c1.redis[key].data)
               IN IF L2Fresh(got)
                  THEN LET item == Touch(got)
                           c2 == Promote(c1, key, item, tie, up)
                           c3 == [c2 EXCEPT !.redis =
                                    RedisSet(@, key, Marshal(item),
                                             item.ExpireTime - now, now)]
                       IN [c |-> c3,
                           ret |-> Outcome("Get", key, TRUE, item.Value, 0, FALSE, "L2",
                                           c2 # c1,
                                           item, c3)]
                  ELSE Miss("Get", key, c1)

\* Mutant: only a missing key (-2) is a miss, a key without expiry (-1) is not.
TTLPositive_AllowsNoExpiry(ttl) == ttl # -2 /\ ttl # 0

\* GetWithTTL goes on with the Redis read unless ttl <= 0.
TTLPositive(ttl) == ttl > 0

GetWithTTL(c, key, tie, up) ==
  IF L1Live(c, key)
  THEN LET ttl == c.localCache[key].ExpireTime - now
           item == Touch(c.localCache[key])
       IN [c |-> [c EXCEPT !.localCache = Store(@, key, item)],
           ret |-> Outcome("GetWithTTL", key, TRUE, item.Value, ttl, FALSE, "L1", FALSE,
                           item, c)]
  ELSE LET c1 == DropExpired(c, key)
           ttl == RedisTTL(c1.redis, key, now)
       IN IF ~config.EnableL2Cache \/ ~up \/ ~TTLPositive(ttl)
          THEN Miss("GetWithTTL", key, c1)
          ELSE LET item == Touch(Unmarshal(c1.redis[key].data))
                   c2 == Promote(c1, key, item, tie, up)
                   c3 == [c2 EXCEPT !.redis = RedisSet(@, key, Marshal(item), ttl, now)]
               IN [c |-> c3,
                   ret |-> Outcome("GetWithTTL", key, TRUE, item.Value, ttl, FALSE, "L2",
                                   c2 # c1,
                                   item, c3)]

\* ---------------------------------------------------------------- Delete, Clear
\* Mutant: Delete forgets the Redis tier.
Delete_L1Only(c, key, up) ==
  IF config.EnableL1Cache /\ key \in DOMAIN c.localCache
  THEN Done("Delete", key, FALSE,
            [c EXCEPT !.localCache = Remove(@, key), !.itemCount = @ - 1,
                      !.removed = @ \cup Removal(c.localCache, {key}, "deleted")])
  ELSE Done("Delete", key, FALSE, c)

Delete(c, key, up) ==
  LET c1 == IF config.EnableL1Cache /\ key \in DOMAIN c.localCache
            THEN [c EXCEPT !.localCache = Remove(@, key), !.itemCount = @ - 1,
                           !.removed = @ \cup Removal(c.localCache, {key}, "deleted")]
            ELSE c
  IN IF ~config.EnableL2Cache THEN Done("Delete", key, FALSE, c1)
     ELSE IF ~up THEN Done("Delete", key, TRUE, c1)
     ELSE Done("Delete", key, FALSE, [c1 EXCEPT !.redis = Remove(@, key)])

Clear(c, up) ==
  LET c1 == IF config.EnableL1Cache
            THEN [c EXCEPT !.localCache = EmptyMap, !.itemCount = 0,
                           !.removed = @ \cup Removal(c.localCache, DOMAIN c.localCache,
                                                      "deleted")]
            ELSE c
  IN IF ~config.EnableL2Cache THEN Done("Clear", "", FALSE, c1)
     ELSE IF ~up THEN Done("Clear", "", TRUE, c1)
     ELSE Done("Clear", "", FALSE, [c1 EXCEPT !.redis = EmptyMap])

\* ---------------------------------------------------------------- cleanup
\* One pass of cleanupExpiredItems: expired keys are deleted, keys the
\* demotion strategy names are spilled and deleted, then the cap is enforced
\* with evictLRU(itemCount - MaxL1Size).
cleanupExpiredItems(c, tie, up) ==
  LET lc == c.localCache
      keysToDelete == {k \in DOMAIN lc : lc[k].ExpireTime <= now}
      keysToDemote == {k \in (DOMAIN lc) \ keysToDelete :
                         ShouldDemote(config.DemotionStrategy, lc[k], now)}
      spill == {k \in keysToDemote : Spills(lc[k], up)}
      c1 == [c EXCEPT
               !.localCache = RemoveAll(lc, keysToDelete \cup keysToDemote),
               !.itemCount = @ - Cardinality(keysToDelete) - Cardinality(keysToDemote),
               !.removed = @ \cup Removal(lc, keysToDelete, "expired")
                             \cup Removal(lc, keysToDemote, "demoted"),
               !.redis = [j \in (DOMAIN c.redis) \cup spill |->
                            IF j \in spill
                            THEN RedisSet(c.redis, j, Marshal(lc[j]),
                                          lc[j].ExpireTime - now, now)[j]
                            ELSE c.redis[j]]]
      c2 == IF config.MaxL1Size > 0 /\ c1.itemCount > config.MaxL1Size
            THEN evictLRU(c1, c1.itemCount - config.MaxL1Size, tie, up)
            ELSE c1
  IN Done("cleanupExpiredItems", "", FALSE, c2)

\* The entries a call evicted with evictLRU.
Evicted(ret) == {e \in ret.removed : e.why = "evicted"}

\* ---------------------------------------------------------------- actions
NoWrite == [set |-> FALSE, v |-> NilValue, t0 |-> 0, ttl |-> 0]

\* The cache NewMultiLevelCache returns for one of the configurations cfgs.
InitWith(cfgs) ==
  /\ config \in {NewMultiLevelCache(cfg) : cfg \in cfgs}
  /\ now = 0
  /\ localCache = EmptyMap
  /\ itemCount = 0
  /\ redis = EmptyMap
  /\ cleanupRoutine = IF config.EnableL1Cache THEN "select" ELSE "none"
  /\ stopCleanup = "open"
  /\ redisClosed = FALSE
  /\ panicked = FALSE
  /\ closeCalls = 0
  /\ last = Done("NewMultiLevelCache", "", FALSE, Cache).ret
  /\ written = [k \in Keys |-> NoWrite]
  /\ threads = NoThreads

Init == InitWith(Configs)

\* The cache serves callers until Close is called.
InUse == closeCalls = 0 /\ ~panicked

\* Whether the Redis calls of this call succeed.
RedisUp == {~redisClosed}

Apply(r) ==
  /\ localCache' = r.c.localCache
  /\ itemCount' = r.c.itemCount
  /\ redis' = r.c.redis
  /\ last' = r.ret

Lifecycle == <<config, now, cleanupRoutine, stopCleanup, redisClosed, panicked, closeCalls,
               threads>>

CallSet(key, value, ttl) ==
  /\ InUse
  /\ \E r \in {Set(Cache, key, value, ttl, tie, up) : tie \in Ties, up \in RedisUp} :
          /\ Apply(r)
          /\ written' = [written EXCEPT ![key] =
                           IF ~r.ret.err /\ ttl > 0
                           THEN [set |-> TRUE, v |-> value, t0 |-> now, ttl |-> ttl]
                           ELSE NoWrite]
  /\ UNCHANGED Lifecycle

\* SetWithExpiration(key, value, expiration), with arg in the record of the
\* call.
CallSetWithExpirationAs(key, value, expiration, arg) ==
  /\ InUse
  /\ \E r \in {SetWithExpiration(Cache, key, value, expiration, tie, up) :
                  tie \in Ties, up \in RedisUp} :
          /\ Apply([r EXCEPT !.ret.arg = arg])
          /\ written' = [written EXCEPT ![key] =
                           IF expiration <= now THEN @
                           ELSE IF ~r.ret.err
                           THEN [set |-> TRUE, v |-> value, t0 |-> now,
                                 ttl |-> expiration - now]
                           ELSE NoWrite]
  /\ UNCHANGED Lifecycle

CallSetWithExpiration(key, value, expiration) ==
  CallSetWithExpirationAs(key, value, expiration, 0)

\* Get(key), while the entry has been read at most maxCount times.
CallGetUpTo(key, maxCount) ==
  /\ InUse
  /\ \E r \in {Get(Cache, key, tie, up) : tie \in Ties, up \in RedisUp} :
          /\ r.ret.item.AccessCount <= maxCount
          /\ Apply(r)
  /\ UNCHANGED <<Lifecycle, written>>

CallGet(key) == CallGetUpTo(key, MaxCount)

CallGetWithTTL(key) ==
  /\ InUse
  /\ \E r \in {GetWithTTL(Cache, key, tie, up) : tie \in Ties, up \in RedisUp} :
          /\ r.ret.item.AccessCount <= MaxCount
          /\ Apply(r)
  /\ UNCHANGED <<Lifecycle, written>>

CallDelete(key) ==
  /\ InUse
  /\ \E r \in {Delete(Cache, key, up) : up \in RedisUp} : Apply(r)
  /\ written' = [written EXCEPT ![key] = NoWrite]
  /\ UNCHANGED Lifecycle

CallClear ==
  /\ InUse
  /\ \E r \in {Clear(Cache, up) : up \in RedisUp} : Apply(r)
  /\ written' = [k \in Keys |-> NoWrite]
  /\ UNCHANGED Lifecycle

\* Close: close(c.stopCleanup) when the ticker exists, then
\* c.redisClient.Close(). Closing a closed channel panics.
Close ==
  /\ ~panicked
  /\ closeCalls < MaxCloseCalls
  /\ IF config.EnableL1Cache /\ stopCleanup = "closed"
     THEN /\ panicked' = TRUE
          /\ last' = Done("Close", "", TRUE, Cache).ret
          /\ UNCHANGED <<stopCleanup, redisClosed, closeCalls>>
     ELSE /\ stopCleanup' = IF config.EnableL1Cache THEN "closed" ELSE stopCleanup
          /\ redisClosed' = (redisClosed \/ config.EnableL2Cache)
          /\ closeCalls' = closeCalls + 1
          /\ last' = Done("Close", "", config.EnableL2Cache /\ redisClosed, Cache).ret
          /\ UNCHANGED panicked
  /\ UNCHANGED <<config, now, localCache, itemCount, redis, cleanupRoutine, written,
                 threads>>

\* cleanupRoutine, case <-c.cleanupTicker.C
CleanupTick ==
  /\ ~panicked
  /\ cleanupRoutine = "select"
  /\ \E r \in {cleanupExpiredItems(Cache, tie, up) : tie \in Ties, up \in RedisUp} :
       Apply(r)
  /\ UNCHANGED <<Lifecycle, written>>

\* cleanupRoutine, case <-c.stopCleanup
CleanupStop ==
  /\ ~panicked
  /\ cleanupRoutine = "select"
  /\ stopCleanup = "closed"
  /\ cleanupRoutine' = "stopped"
  /\ last' = Done("cleanupRoutine", "", FALSE, Cache).ret
  /\ UNCHANGED <<config, now, localCache, itemCount, redis, stopCleanup, redisClosed,
                 panicked, closeCalls, written, threads>>

\* A second passes; Redis drops the keys whose expiry time is reached.
AdvanceClock ==
  /\ ~panicked
  /\ now < MaxTime
  /\ now' = now + 1
  /\ redis' = RedisExpire(redis, now + 1)
  /\ last' = Done("time.Now", "", FALSE, Cache).ret
  /\ UNCHANGED <<config, localCache, itemCount, cleanupRoutine, stopCleanup, redisClosed,
                 panicked, closeCalls, written, threads>>

Next ==
  \/ \E key \in Keys, value \in UserValues, ttl \in 0..MaxTTL : CallSet(key, value, ttl)
  \/ \E key \in Keys, value \in UserValues, expiration \in (now - 1)..(now + MaxTTL) :
       CallSetWithExpiration(key, value, expiration)
  \/ \E key \in Keys : CallGet(key)
  \/ \E key \in Keys : CallGetWithTTL(key)
  \/ \E key \in Keys : CallDelete(key)
  \/ CallClear
  \/ CleanupTick
  \/ AdvanceClock

\* The cache while it serves callers.
Spec == Init /\ [][Next]_vars

\* The whole life of a cache, Close included.
NextClose == Next \/ Close \/ CleanupStop

SpecClose == Init /\ [][NextClose]_vars

\* ---------------------------------------------------------------- evictLRU alone
\* evictLRU(n) on a quiescent L1 that racing writers left above its cap (the
\* cleanup pass calls it with n = itemCount - MaxL1Size).
EvictKeys == {"x", "y", "z"}

MaxEvict == 3

EvictItems ==
  {CacheItem(IntV(1), e, cr, a, 0) : e \in 1..2, cr \in 0..1, a \in 0..1}

InitEvict ==
  /\ config \in {NewMultiLevelCache(CacheConfig(TRUE, l2, 1, NilStrategy, NilStrategy)) :
                   l2 \in BOOLEAN}
  /\ now = 1
  /\ \E S \in SUBSET EvictKeys :
       localCache \in {f \in [S -> EvictItems] : \A k \in S : f[k].CreateTime <= f[k].AccessTime}
  /\ itemCount = Cardinality(DOMAIN localCache)
  /\ redis = EmptyMap
  /\ cleanupRoutine = "select"
  /\ stopCleanup = "open"
  /\ redisClosed = FALSE
  /\ panicked = FALSE
  /\ closeCalls = 0
  /\ last = Done("NewMultiLevelCache", "", FALSE, Cache).ret
  /\ written = [k \in Keys |-> NoWrite]
  /\ threads = NoThreads

CallEvictLRU(n) ==
  /\ last.op = "NewMultiLevelCache"
  /\ \E c \in {evictLRU(Cache, n, tie, up) : tie \in Perms(EvictKeys), up \in RedisUp} :
       Apply([c |-> c, ret |-> [Done("evictLRU", "", FALSE, c).ret EXCEPT !.arg = n]])
  /\ UNCHANGED <<Lifecycle, written>>

NextEvict == \E n \in 1..MaxEvict : CallEvictLRU(n)

SpecEvict == InitEvict /\ [][NextEvict]_vars

\* ---------------------------------------------------------------- promotion
\* Both tiers with a cap of one entry, under the default promotion policy
\* (3, 60, 0) and under a policy whose window an entry can outlive; entries
\* are read often enough and live long enough for both.
PromotionConfigs ==
  {CacheConfig(TRUE, TRUE, 1, NilStrategy, FrequencyBasedStrategy(0, 0, 1)),
   CacheConfig(TRUE, TRUE, 1, FrequencyBasedStrategy(2, 1, 0), NilStrategy)}

MaxReads == 5

LongTTL == 3

InitPromotion == InitWith(PromotionConfigs)

NextPromotion ==
  \/ \E key \in Keys, ttl \in {1, LongTTL} : CallSet(key, IntV(1), ttl)
  \/ \E key \in Keys : CallGetUpTo(key, MaxReads)
  \/ CleanupTick
  \/ AdvanceClock

SpecPromotion == InitPromotion /\ [][NextPromotion]_vars

\* ---------------------------------------------------------------- time-window promotion
\* Both tiers with a cap of one entry under time-window promotion policies
\* with a window of one second: an entry can be read for the first time, or
\* again, more than a window after its last access.
WindowConfigs ==
  {CacheConfig(TRUE, TRUE, 1, TimeWindowStrategy(1, 1, 0), NilStrategy),
   CacheConfig(TRUE, TRUE, 1, TimeWindowStrategy(2, 1, 0), NilStrategy)}

InitWindow == InitWith(WindowConfigs)

NextWindow ==
  \/ \E key \in Keys, ttl \in {1, LongTTL} : CallSet(key, IntV(1), ttl)
  \/ \E key \in Keys : CallGetUpTo(key, MaxReads)
  \/ \E key \in Keys : CallGetWithTTL(key)
  \/ CleanupTick
  \/ AdvanceClock

SpecWindow == InitWindow /\ [][NextWindow]_vars

\* ---------------------------------------------------------------- Redis failures
\* Calls during which Redis is unreachable, and Sets whose own write fails,
\* among calls that succeed.
FailConfigs ==
  {CacheConfig(TRUE, TRUE, 1, FrequencyBasedStrategy(2, 1, 0), NilStrategy),
   CacheConfig(FALSE, TRUE, 0, NilStrategy, NilStrategy)}

InitFail == InitWith(FailConfigs)

\* The outcome of a call, marked with what happened to its Redis calls.
Down(r, how) == [r EXCEPT !.ret.l2 = how]

\* Get(key) while every Redis call returns an error.
FailGet(key) ==
  /\ InUse
  /\ \E r \in {Down(Get(Cache, key, tie, FALSE), "down") : tie \in Ties} :
          /\ r.ret.item.AccessCount <= MaxCount
          /\ Apply(r)
  /\ UNCHANGED <<Lifecycle, written>>

\* GetWithTTL(key) while every Redis call returns an error.
FailGetWithTTL(key) ==
  /\ InUse
  /\ \E r \in {Down(GetWithTTL(Cache, key, tie, FALSE), "down") : tie \in Ties} :
          /\ r.ret.item.AccessCount <= MaxCount
          /\ Apply(r)
  /\ UNCHANGED <<Lifecycle, written>>

\* Set(key, value, ttl) whose Redis write fails, with the Redis calls of the
\* eviction before it failing too or succeeding; the outcome records the
\* envelope Set built.
FailSet(key, value, ttl) ==
  /\ InUse
  /\ \E r \in {Down(Set(Cache, key, value, ttl, tie, FALSE), "down") : tie \in Ties}
             \cup {Down(SetWriteFails(Cache, key, value, ttl, tie), "write failed") :
                     tie \in Ties} :
          Apply([r EXCEPT !.ret.item = CacheItem(value, now + ttl, now, now, 0)])
  /\ written' = [written EXCEPT ![key] = NoWrite]
  /\ UNCHANGED Lifecycle

NextFail ==
  \/ \E key \in Keys, ttl \in 1..MaxTTL : CallSet(key, IntV(1), ttl)
  \/ \E key \in Keys : CallGet(key)
  \/ \E key \in Keys : FailGet(key)
  \/ \E key \in Keys : FailGetWithTTL(key)
  \/ \E key \in Keys : FailSet(key, FloatV(2), MaxTTL)
  \/ AdvanceClock

SpecFail == InitFail /\ [][NextFail]_vars

\* ---------------------------------------------------------------- deadlines
\* SetWithExpiration with its deadline on record, among Sets and reads.
InitDeadline == InitWith(FailConfigs \cup PromotionConfigs)

NextDeadline ==
  \/ \E key \in Keys, ttl \in 1..MaxTTL : CallSet(key, IntV(1), ttl)
  \/ \E key \in Keys, value \in UserValues, expiration \in (now - 1)..(now + MaxTTL) :
       CallSetWithExpirationAs(key, value, expiration, expiration)
  \/ \E key \in Keys : CallGet(key)
  \/ AdvanceClock

SpecDeadline == InitDeadline /\ [][NextDeadline]_vars

\* ---------------------------------------------------------------- hybrid strategies
\* A hybrid strategy applied to the one entry of L1. Its children are two
\* frequency strategies, a time-window strategy and a hybrid of one child.
HybridChildren ==
  {FrequencyBasedStrategy(1, 1, 1), FrequencyBasedStrategy(2, 2, 2),
   TimeWindowStrategy(1, 1, 2),
   HybridStrategy(FALSE, <<FrequencyBasedStrategy(2, 2, 2)>>)}

MaxChildren == 2

Hybrids ==
  {HybridStrategy(requireAll, strategies) :
     requireAll \in BOOLEAN,
     strategies \in UNION {[1..n -> HybridChildren] : n \in 0..MaxChildren}}

HybridItems ==
  {CacheItem(IntV(1), 3, cr, a, n) : cr \in 0..1, a \in 0..1, n \in 0..2}

InitHybrid ==
  /\ config \in {NewMultiLevelCache(CacheConfig(TRUE, FALSE, 1, h, h)) : h \in Hybrids}
  /\ now = 2
  /\ localCache \in {f \in [{"x"} -> HybridItems] : f["x"].CreateTime <= f["x"].AccessTime}
  /\ itemCount = 1
  /\ redis = EmptyMap
  /\ cleanupRoutine = "select"
  /\ stopCleanup = "open"
  /\ redisClosed = FALSE
  /\ panicked = FALSE
  /\ closeCalls = 0
  /\ last = Done("NewMultiLevelCache", "", FALSE, Cache).ret
  /\ written = [k \in Keys |-> NoWrite]
  /\ threads = NoThreads

\* c.config.PromotionStrategy.ShouldPromote(item) on the L1 entry of key.
CallShouldPromote(key) ==
  /\ key \in DOMAIN localCache
  /\ last' = [Done("ShouldPromote", key, FALSE, Cache).ret EXCEPT
                !.found = HybridShouldPromote(config.PromotionStrategy, localCache[key], now)]
  /\ UNCHANGED <<Lifecycle, written, localCache, itemCount, redis>>

\* c.config.DemotionStrategy.ShouldDemote(item) on the L1 entry of key.
CallShouldDemote(key) ==
  /\ key \in DOMAIN localCache
  /\ last' = [Done("ShouldDemote", key, FALSE, Cache).ret EXCEPT
                !.found = HybridShouldDemote(config.DemotionStrategy, localCache[key], now)]
  /\ UNCHANGED <<Lifecycle, written, localCache, itemCount, redis>>

NextHybrid ==
  \/ \E key \in Keys : CallShouldPromote(key)
  \/ \E key \in Keys : CallShouldDemote(key)

SpecHybrid == InitHybrid /\ [][NextHybrid]_vars

\* ---------------------------------------------------------------- claims
\* The JSON round trip of a user value through Redis.
RoundTrip(val) == UnmarshalValue(MarshalValue(val))

C3_DeleteIdempotent ==
  [][(last'.op = "Delete" /\ ~last'.err) =>
        LET k == last'.key
            after == [localCache |-> localCache', itemCount |-> itemCount',
                      redis |-> redis', removed |-> {}]
            again == Delete(after, k, TRUE)
        IN /\ k \notin DOMAIN localCache'
           /\ k \notin DOMAIN redis'
           /\ \A tie \in Ties : ~Get(after, k, tie, TRUE).ret.found
           /\ ~again.ret.err
           /\ again.c = after
           /\ itemCount' = itemCount - (IF k \in DOMAIN localCache THEN 1 ELSE 0)]_vars

\* A Delete that removed the key from L1 with Redis enabled.
C3_Witness ==
  /\ last.op = "Delete"
  /\ ~last.err
  /\ config.EnableL2Cache
  /\ \E e \in last.removed : e.why = "deleted" /\ e.key = last.key

KeyOrder == <<"x", "y", "z">>

NamedBefore(lc, a, b) ==
  \/ lc[a].AccessTime < lc[b].AccessTime
  \/ /\ lc[a].AccessTime = lc[b].AccessTime
     /\ \/ lc[a].CreateTime < lc[b].CreateTime
        \/ /\ lc[a].CreateTime = lc[b].CreateTime
           /\ Rank(KeyOrder, a) < Rank(KeyOrder, b)

Min(a, b) == IF a < b THEN a ELSE b

NamedVictims(lc, n) ==
  {k \in DOMAIN lc :
     Cardinality({j \in DOMAIN lc : NamedBefore(lc, j, k)}) < Min(n, Cardinality(DOMAIN lc))}

L2Updated(k) ==
  LET got == Unmarshal(redis[k].data)
  IN [got EXCEPT !.AccessTime = now, !.AccessCount = got.AccessCount + 1]

\* Get(k) misses L1 and finds a live envelope in Redis.
L2Hit(k) ==
  /\ ~(k \in DOMAIN localCache /\ localCache[k].ExpireTime > now)
  /\ RedisLive(redis, k, now)
  /\ Unmarshal(redis[k].data).ExpireTime > now

\* The frequency promotion policy of the configuration, on an envelope.
PolicyHolds(item) ==
  /\ config.PromotionStrategy.accessThreshold > 0
  /\ config.PromotionStrategy.timeWindow > 0
  /\ now - item.CreateTime <= config.PromotionStrategy.timeWindow
  /\ item.AccessCount >= config.PromotionStrategy.accessThreshold

\* C6 as stated: with L1 and L2 enabled, a Get(k) that misses L1 and finds a
\* live envelope in Redis returns it with access_time = now and
\* access_count + 1, and afterwards that envelope is in L1 exactly when the
\* promotion policy holds on it; a Get(k) that finds k live in L1 is answered
\* from L1 and leaves Redis untouched.
C6_PromotionOnL2Hit ==
  [][(last'.op = "Get" /\ config.EnableL1Cache /\ config.EnableL2Cache) =>
       LET k == last'.key
       IN /\ (k \in DOMAIN localCache /\ localCache[k].ExpireTime > now) =>
               last'.tier = "L1" /\ redis' = redis
          /\ L2Hit(k) =>
               /\ last'.found
               /\ last'.tier = "L2"
               /\ last'.item = L2Updated(k)
               /\ PolicyHolds(L2Updated(k)) <=>
                    (k \in DOMAIN localCache' /\ localCache'[k] = L2Updated(k))]_vars

\* C6 amended: as C6, but the envelope the policy admits is in L1 afterwards
\* or was inserted and evicted again by the cap check of the same Get (and is
\* then in Redis); an envelope the policy does not admit is not in L1.
C6_PromotionOnL2HitAmended ==
  [][(last'.op = "Get" /\ config.EnableL1Cache /\ config.EnableL2Cache) =>
       LET k == last'.key
       IN /\ (k \in DOMAIN localCache /\ localCache[k].ExpireTime > now) =>
               last'.tier = "L1" /\ redis' = redis
          /\ L2Hit(k) =>
               /\ last'.found
               /\ last'.tier = "L2"
               /\ last'.item = L2Updated(k)
               /\ redis'[k].data = Marshal(L2Updated(k))
               /\ IF PolicyHolds(L2Updated(k))
                  THEN \/ k \in DOMAIN localCache' /\ localCache'[k] = L2Updated(k)
                       \/ /\ k \notin DOMAIN localCache'
                          /\ [key |-> k, item |-> L2Updated(k), why |-> "evicted"]
                               \in last'.removed
                  ELSE k \notin DOMAIN localCache']_vars

\* Under the default policy (3, 60, 0) the Gets of an entry that was in Redis
\* alone with access_count 0 promoted it on the third access, and the fifth
\* Get was answered from L1 while the copy in Redis stayed as the promotion
\* left it.
C6_Witness ==
  /\ last.op = "Get"
  /\ last.tier = "L1"
  /\ config.PromotionStrategy = FrequencyBasedStrategy(DefaultAccessThreshold,
                                                       DefaultTimeWindow, 0)
  /\ last.key \in DOMAIN localCache
  /\ localCache[last.key] = last.item
  /\ last.item.AccessCount = MaxReads
  /\ last.key \in DOMAIN redis
  /\ redis[last.key].data.access_count = DefaultAccessThreshold

\* C7: with L1 and L2 enabled and a frequency demotion policy with idle > 0,
\* a cleanup pass at time now moves every non-expired L1 entry with
\* now - access_time >= idle to Redis (the serialized envelope it had in L1,
\* expiring at its expire_time), keeps every non-expired entry with
\* now - access_time < idle unless the cap check of the pass evicts it, and
\* lowers item_count once per entry it removes.
C7_DemotionByTick ==
  [][(/\ last'.op = "cleanupExpiredItems"
      /\ config.EnableL1Cache
      /\ config.EnableL2Cache
      /\ config.DemotionStrategy.idleTime > 0) =>
        LET idle == config.DemotionStrategy.idleTime
            live == {k \in DOMAIN localCache : localCache[k].ExpireTime > now}
            cold == {k \in live : now - localCache[k].AccessTime >= idle}
            capped == {e.key : e \in Evicted(last')}
        IN /\ \A k \in cold :
                /\ k \notin DOMAIN localCache'
                /\ k \in DOMAIN redis'
                /\ redis'[k].data = Marshal(localCache[k])
                /\ redis'[k].expireAt = localCache[k].ExpireTime
           /\ \A k \in live \ cold :
                \/ k \in capped
                \/ k \in DOMAIN localCache' /\ localCache'[k] = localCache[k]
           /\ itemCount' = itemCount - Cardinality(cold)
                             - Cardinality((DOMAIN localCache) \ live)
                             - Cardinality(capped)]_vars

\* A cleanup pass demoted an entry, which is now in Redis and not in L1.
C7_Witness ==
  /\ last.op = "cleanupExpiredItems"
  /\ config.EnableL2Cache
  /\ \E e \in last.removed :
        /\ e.why = "demoted"
        /\ e.key \in DOMAIN redis
        /\ e.key \notin DOMAIN localCache

\* C8: with L2 enabled, an entry evictLRU removes while expire_time > now is
\* afterwards in Redis as the serialized envelope it had in L1, with the TTL
\* expire_time - now; an evicted entry with expire_time <= now leaves L1
\* without evictLRU writing it to Redis.
C8_SpillOnEviction ==
  [][\A e \in Evicted(last') :
        /\ e.key \notin DOMAIN localCache'
        /\ IF e.item.ExpireTime > now
           THEN config.EnableL2Cache =>
                  /\ e.key \in DOMAIN redis'
                  /\ redis'[e.key].data = Marshal(e.item)
                  /\ RedisTTL(redis', e.key, now) = e.item.ExpireTime - now
           ELSE e.key # last'.key =>
                  /\ e.key \in DOMAIN redis' <=> e.key \in DOMAIN redis
                  /\ e.key \in DOMAIN redis => redis'[e.key] = redis[e.key]]_vars

\* A Set of another key evicted a live entry, which is now in Redis.
C8_Witness ==
  /\ last.op = "Set"
  /\ config.EnableL2Cache
  /\ \E e \in Evicted(last) :
        /\ e.key # last.key
        /\ e.item.ExpireTime > now
        /\ e.key \in DOMAIN redis
        /\ e.item.AccessCount > 0

\* C9: no sequence of Close calls reaches a panic.
C9_CloseIdempotent == ~panicked

\* C10: no cleanup pass runs after Close has returned.
C10_NoTickAfterClose ==
  ~(closeCalls > 0 /\ last.op = "cleanupExpiredItems")

\* C11: when Redis fails and L1 has no live entry for k, Get(k) and
\* GetWithTTL(k) return a miss and no error, leave Redis and the L1 entries
\* of the other keys unchanged, and change item_count only by the removal of
\* an expired k.
C11_DegradedRead ==
  [][(/\ last'.op \in {"Get", "GetWithTTL"}
      /\ last'.l2 = "down"
      /\ ~(/\ config.EnableL1Cache
           /\ last'.key \in DOMAIN localCache
           /\ localCache[last'.key].ExpireTime > now)) =>
        LET k == last'.key
        IN /\ ~last'.found
           /\ ~last'.err
           /\ last'.value = NilValue
           /\ redis' = redis
           /\ k \notin DOMAIN localCache'
           /\ \A j \in Keys \ {k} :
                /\ j \in DOMAIN localCache' <=> j \in DOMAIN localCache
                /\ j \in DOMAIN localCache => localCache'[j] = localCache[j]
           /\ itemCount' = itemCount - (IF k \in DOMAIN localCache THEN 1 ELSE 0)]_vars

\* A GetWithTTL missed during a Redis failure while Redis holds a live
\* envelope of the key and L1 an entry of another key.
C11_Witness ==
  /\ last.op = "GetWithTTL"
  /\ last.l2 = "down"
  /\ ~last.found
  /\ config.EnableL1Cache
  /\ DOMAIN localCache = Keys \ {last.key}
  /\ RedisLive(redis, last.key, now)
  /\ redis[last.key].data.expire_time > now

\* C12 as stated: with L1 and L2 enabled, a Set(k, v, ttl) whose Redis write
\* fails returns the error, L1 holds the new envelope of k unless the cap
\* check of that Set evicted it, and Redis holds for k what it held before.
C12_SetFailingL2 ==
  [][(/\ last'.op = "Set"
      /\ last'.l2 # "up"
      /\ config.EnableL1Cache
      /\ config.EnableL2Cache) =>
        LET k == last'.key
            item == last'.item
            out == [key |-> k, item |-> item, why |-> "evicted"]
        IN /\ last'.err
           /\ IF out \in last'.removed
              THEN k \notin DOMAIN localCache'
              ELSE k \in DOMAIN localCache' /\ localCache'[k] = item
           /\ k \in DOMAIN redis' <=> k \in DOMAIN redis
           /\ k \in DOMAIN redis => redis'[k] = redis[k]]_vars

\* C12 amended: as C12, but when the cap check of that Set evicted the new
\* envelope of k and its spill succeeded, Redis holds that new envelope.
C12_SetFailingL2Amended ==
  [][(/\ last'.op = "Set"
      /\ last'.l2 # "up"
      /\ config.EnableL1Cache
      /\ config.EnableL2Cache) =>
        LET k == last'.key
            item == last'.item
            out == [key |-> k, item |-> item, why |-> "evicted"]
        IN /\ last'.err
           /\ IF out \in last'.removed
              THEN k \notin DOMAIN localCache'
              ELSE k \in DOMAIN localCache' /\ localCache'[k] = item
           /\ \/ /\ k \in DOMAIN redis' <=> k \in DOMAIN redis
                 /\ k \in DOMAIN redis => redis'[k] = redis[k]
              \/ /\ out \in last'.removed
                 /\ k \in DOMAIN redis'
                 /\ redis'[k] = [data |-> Marshal(item), expireAt |-> item.ExpireTime]]_vars

\* A Set failed on its Redis write: L1 holds the new envelope and Redis still
\* the envelope of an earlier Set.
C12_Witness ==
  /\ last.op = "Set"
  /\ last.err
  /\ last.l2 = "write failed"
  /\ config.EnableL1Cache
  /\ last.key \in DOMAIN localCache
  /\ localCache[last.key] = last.item
  /\ last.key \in DOMAIN redis
  /\ redis[last.key].data # Marshal(localCache[last.key])

\* C13: SetWithExpiration(k, v, deadline) with deadline <= now returns
\* success and leaves L1, Redis and item_count unchanged; with deadline > now
\* it does what Set(k, v, deadline - now) does.
C13_PastDeadline ==
  [][(last'.op = "SetWithExpiration") =>
        IF last'.arg <= now
        THEN /\ ~last'.err
             /\ localCache' = localCache
             /\ itemCount' = itemCount
             /\ redis' = redis
        ELSE \E v \in UserValues, tie \in Ties :
               LET r == Set(Cache, last'.key, v, last'.arg - now, tie, TRUE)
               IN /\ localCache' = r.c.localCache
                  /\ itemCount' = r.c.itemCount
                  /\ redis' = r.c.redis
                  /\ last'.err = r.ret.err
                  /\ last'.removed = r.ret.removed
                  /\ written'[last'.key].v = v]_vars

\* A SetWithExpiration with a deadline that had passed left the live value
\* of the key in both tiers.
C13_Witness ==
  /\ last.op = "SetWithExpiration"
  /\ last.arg <= now
  /\ ~last.err
  /\ config.EnableL1Cache
  /\ config.EnableL2Cache
  /\ last.key \in DOMAIN localCache
  /\ localCache[last.key].ExpireTime > now
  /\ last.key \in DOMAIN redis

C19_LazyPurge ==
  [][(/\ last'.op \in {"Get", "GetWithTTL"}
      /\ config.EnableL1Cache
      /\ last'.key \in DOMAIN localCache
      /\ localCache[last'.key].ExpireTime <= now) =>
        LET k == last'.key
            back == IF k \in DOMAIN localCache' THEN 1 ELSE 0
        IN /\ [key |-> k, item |-> localCache[k], why |-> "expired"] \in last'.removed
           /\ k \in DOMAIN localCache' => localCache'[k] # localCache[k] /\ last'.promoted
           /\ itemCount' = itemCount - 1 + back - Cardinality(Evicted(last'))
           /\ ~config.EnableL2Cache => ~last'.found /\ k \notin DOMAIN localCache'
           /\ config.EnableL2Cache =>
                (last'.found <=> /\ RedisLive(redis, k, now)
                                 /\ redis[k].expireAt # NoExpiry
                                 /\ redis[k].data.expire_time > now)]_vars

\* With L1 alone, a Get after the expiry of the only entry missed, removed
\* the entry and left item_count at 0.
C19_Witness ==
  /\ last.op = "Get"
  /\ ~config.EnableL2Cache
  /\ ~last.found
  /\ \E e \in last.removed : e.why = "expired" /\ e.key = last.key
  /\ written[last.key].set
  /\ itemCount = 0
  /\ localCache = EmptyMap

\* What child i of the hybrid strategy s answers for the call on record.
ChildHolds(s, i) ==
  IF last.op = "ShouldPromote"
  THEN ChildShouldPromote(s.strategies[i], localCache[last.key], now)
  ELSE ChildShouldDemote(s.strategies[i], localCache[last.key], now)

\* C20: a hybrid policy returns false for an empty list; with requireAll it
\* returns true iff every child returns true, and without it iff at least
\* one child returns true.
C20_HybridCombinator ==
  (last.op \in {"ShouldPromote", "ShouldDemote"}) =>
     LET s == IF last.op = "ShouldPromote" THEN config.PromotionStrategy
              ELSE config.DemotionStrategy
         n == Len(s.strategies)
     IN last.found <=>
          /\ n > 0
          /\ IF s.requireAll
             THEN \A i \in 1..n : ChildHolds(s, i)
             ELSE \E i \in 1..n : ChildHolds(s, i)

\* A promotion policy requiring all of two children returned false because
\* its second child does not hold while its first does.
C20_Witness ==
  /\ last.op = "ShouldPromote"
  /\ config.PromotionStrategy.requireAll
  /\ Len(config.PromotionStrategy.strategies) = 2
  /\ ChildHolds(config.PromotionStrategy, 1)
  /\ ~ChildHolds(config.PromotionStrategy, 2)
  /\ ~last.found


\* ---------------------------------------------------------------- goroutines
\* The methods take no lock (c.mutex is never locked), so the statements of
\* calls made by different goroutines interleave.  Every sync.Map operation
\* and every Redis command is one step; a step reads and writes itemCount
\* together with the L1 operation it follows.
MaxCalls == 2

\* Caller A makes up to MaxCalls calls in a row, caller B makes one, the
\* cleanup goroutine runs one pass.
CallBudget(th) == IF th = "A" THEN MaxCalls ELSE 1

\* The value a caller passes to Set.
RaceValue(th) == IF th = "A" THEN FloatV(2) ELSE IntV(3)

\* The entry Set(key, 1, ttl) made at time 0.
RaceItem(ttl) == CacheItem(IntV(1), ttl, 0, 0, 0)

RaceConfigs ==
  {CacheConfig(TRUE, FALSE, 2, NilStrategy, FrequencyBasedStrategy(0, 0, 1)),
   CacheConfig(TRUE, TRUE, 1, FrequencyBasedStrategy(1, 1, 0), NilStrategy)}

\* The cache one second after some Sets at time 0: L1 within its cap, Redis
\* holding the live entries of L1 and the live entries evicted from it.
InitRace ==
  /\ config \in {NewMultiLevelCache(cfg) : cfg \in RaceConfigs}
  /\ now = 1
  /\ \E S \in {T \in SUBSET Keys : Cardinality(T) <= config.MaxL1Size} :
       \E f \in [S -> {RaceItem(1), RaceItem(LongTTL)}] :
         /\ localCache = f
         /\ \E R \in SUBSET (Keys \ S) :
              redis = IF config.EnableL2Cache
                      THEN [k \in R \cup {j \in S : f[j].ExpireTime > now} |->
                              LET item == IF k \in S THEN f[k] ELSE RaceItem(LongTTL)
                              IN [data |-> Marshal(item), expireAt |-> item.ExpireTime]]
                      ELSE EmptyMap
  /\ itemCount = Cardinality(DOMAIN localCache)
  /\ cleanupRoutine = "select"
  /\ stopCleanup = "open"
  /\ redisClosed = FALSE
  /\ panicked = FALSE
  /\ closeCalls = 0
  /\ last = Done("NewMultiLevelCache", "", FALSE, Cache).ret
  /\ written = [k \in Keys |-> NoWrite]
  /\ threads = NoThreads

Goto(th, rec) == threads' = [threads EXCEPT ![th] = rec]

\* The call of th returns.
Return(th, found, value) ==
  Goto(th, [threads[th] EXCEPT
              !.pc = "idle",
              !.done = Append(@, [op |-> threads[th].op, key |-> threads[th].key,
                                  item |-> threads[th].item, found |-> found,
                                  value |-> value])])

Quiet == <<config, now, cleanupRoutine, stopCleanup, redisClosed, panicked, closeCalls,
           last, written>>

\* The keys of S in the order sync.Map.Range visits them.
RangeOrder(S, tie) ==
  CHOOSE s \in Perms(S) :
    \A i, j \in DOMAIN s : i < j => Rank(tie, s[i]) < Rank(tie, s[j])

\* The entries of L1 as evictLRU sorts them.
Sorted(lc, tie) ==
  CHOOSE s \in Perms(DOMAIN lc) :
    \A i, j \in DOMAIN s : i < j => SortsBefore(lc, tie, s[i], s[j])

Snapshot(lc, keys) == [i \in DOMAIN keys |-> [key |-> keys[i], item |-> lc[keys[i]]]]

\* The pointer evictLRU snapshotted still is the object stored in L1 (Get
\* updates the access fields of that object in place).
SameObject(lc, e) ==
  /\ e.key \in DOMAIN lc
  /\ lc[e.key].Value = e.item.Value
  /\ lc[e.key].ExpireTime = e.item.ExpireTime
  /\ lc[e.key].CreateTime = e.item.CreateTime

\* The statement after the cap check that follows a store into L1.
AfterStore(rec, count, next) ==
  IF config.MaxL1Size > 0 /\ count > config.MaxL1Size
  THEN [rec EXCEPT !.pc = "evictLRU", !.next = next]
  ELSE [rec EXCEPT !.pc = next]

\* A caller starts Set, Get or Delete.
Begin(th, op, key) ==
  /\ th \in Callers
  /\ threads[th].pc = "idle"
  /\ threads[th].calls < CallBudget(th)
  /\ Goto(th, [threads[th] EXCEPT
                 !.pc = op, !.op = op, !.key = key, !.calls = @ + 1,
                 !.item = IF op = "Set"
                          THEN CacheItem(RaceValue(th), now + LongTTL, now, now, 0)
                          ELSE NoItem])
  /\ UNCHANGED <<Quiet, localCache, itemCount, redis>>

\* Set, the L1 part: Load, itemCount++ for a new key, Store, cap check.
SetStore(th) ==
  LET t == threads[th]
      count == IF t.key \in DOMAIN localCache THEN itemCount ELSE itemCount + 1
  IN /\ t.pc = "Set"
     /\ IF config.EnableL1Cache
        THEN /\ localCache' = Store(localCache, t.key, t.item)
             /\ itemCount' = count
             /\ Goto(th, AfterStore(t, count, "Set.redis"))
        ELSE /\ Goto(th, [t EXCEPT !.pc = "Set.redis"])
             /\ UNCHANGED <<localCache, itemCount>>
     /\ UNCHANGED <<Quiet, redis>>

\* Set, the Redis write, and the return.
SetRedis(th) ==
  LET t == threads[th]
  IN /\ t.pc = "Set.redis"
     /\ redis' = IF config.EnableL2Cache
                 THEN RedisSet(redis, t.key, Marshal(t.item), t.item.ExpireTime - now, now)
                 ELSE redis
     /\ Return(th, FALSE, NilValue)
     /\ UNCHANGED <<Quiet, localCache, itemCount>>

\* Get, the L1 part: a live entry is touched and returned, an expired one is
\* deleted.
GetLoad(th) ==
  LET t == threads[th]
      lc == localCache
  IN /\ t.pc = "Get"
     /\ IF config.EnableL1Cache /\ t.key \in DOMAIN lc
        THEN IF lc[t.key].ExpireTime > now
             THEN /\ localCache' = Store(lc, t.key, Touch(lc[t.key]))
                  /\ Return(th, TRUE, lc[t.key].Value)
                  /\ UNCHANGED itemCount
             ELSE /\ localCache' = Remove(lc, t.key)
                  /\ itemCount' = itemCount - 1
                  /\ Goto(th, [t EXCEPT !.pc = "Get.redis"])
        ELSE /\ Goto(th, [t EXCEPT !.pc = "Get.redis"])
             /\ UNCHANGED <<localCache, itemCount>>
     /\ UNCHANGED <<Quiet, redis>>

\* Get, the Redis read: the envelope is unmarshalled, checked and touched.
GetRedis(th) ==
  LET t == threads[th]
      got == Unmarshal(redis[t.key].data)
      item == Touch(got)
  IN /\ t.pc = "Get.redis"
     /\ IF config.EnableL2Cache /\ RedisLive(redis, t.key, now) /\ L2Fresh(got)
        THEN Goto(th, [t EXCEPT
                         !.item = item,
                         !.pc = IF config.EnableL1Cache
                                   /\ ShouldPromote(config.PromotionStrategy, item, now)
                                THEN "Get.promote" ELSE "Get.writeback"])
        ELSE Return(th, FALSE, NilValue)
     /\ UNCHANGED <<Quiet, localCache, itemCount, redis>>

\* Get, the promotion: Store, itemCount++, cap check.
GetPromote(th) ==
  LET t == threads[th]
  IN /\ t.pc = "Get.promote"
     /\ localCache' = Store(localCache, t.key, t.item)
     /\ itemCount' = itemCount + 1
     /\ Goto(th, AfterStore(t, itemCount + 1, "Get.writeback"))
     /\ UNCHANGED <<Quiet, redis>>

\* Get, the write-back of the touched envelope, and the return.
GetWriteBack(th) ==
  LET t == threads[th]
  IN /\ t.pc = "Get.writeback"
     /\ redis' = RedisSet(redis, t.key, Marshal(t.item), t.item.ExpireTime - now, now)
     /\ Return(th, TRUE, t.item.Value)
     /\ UNCHANGED <<Quiet, localCache, itemCount>>

\* Delete, the L1 part.
DeleteLocal(th) ==
  LET t == threads[th]
  IN /\ t.pc = "Delete"
     /\ IF config.EnableL1Cache /\ t.key \in DOMAIN localCache
        THEN /\ localCache' = Remove(localCache, t.key)
             /\ itemCount' = itemCount - 1
        ELSE UNCHANGED <<localCache, itemCount>>
     /\ Goto(th, [t EXCEPT !.pc = "Delete.redis"])
     /\ UNCHANGED <<Quiet, redis>>

\* Delete, the Redis DEL, and the return.
DeleteRedis(th) ==
  LET t == threads[th]
  IN /\ t.pc = "Delete.redis"
     /\ redis' = IF config.EnableL2Cache THEN Remove(redis, t.key) ELSE redis
     /\ Return(th, FALSE, NilValue)
     /\ UNCHANGED <<Quiet, localCache, itemCount>>

\* The statement a goroutine goes to when evictLRU returns.
EvictReturn(th, rec) ==
  IF rec.next = "idle"
  THEN [rec EXCEPT !.pc = "idle"]
  ELSE [rec EXCEPT !.pc = rec.next]

\* evictLRU, the snapshot: Range collects the entries, sort.Slice orders
\* them, the first evictCount are the victims.
EvictSnapshot(th, count, tie) ==
  LET t == threads[th]
      all == Snapshot(localCache, Sorted(localCache, tie))
      evictCount == IF count > Len(all) THEN Len(all) ELSE count
      victims == SubSeq(all, 1, evictCount)
  IN /\ t.pc = "evictLRU"
     /\ Goto(th, IF victims = <<>>
                 THEN EvictReturn(th, t)
                 ELSE [t EXCEPT !.pc = "evictLRU.loop", !.victims = victims])
     /\ UNCHANGED <<Quiet, localCache, itemCount, redis>>

\* evictLRU, one turn of the loop over the victims: the spill of the object
\* the snapshot points to, then Delete and itemCount--.
EvictVictim(th) ==
  LET t == threads[th]
      e == Head(t.victims)
      item == IF SameObject(localCache, e) THEN localCache[e.key] ELSE e.item
      rest == [t EXCEPT !.victims = Tail(@)]
  IN /\ t.pc = "evictLRU.loop"
     /\ redis' = IF Spills(item, TRUE)
                 THEN RedisSet(redis, e.key, Marshal(item), item.ExpireTime - now, now)
                 ELSE redis
     /\ localCache' = Remove(localCache, e.key)
     /\ itemCount' = itemCount - 1
     /\ Goto(th, IF rest.victims = <<>> THEN EvictReturn(th, rest) ELSE rest)
     /\ UNCHANGED Quiet

\* The statement of cleanupExpiredItems after the snapshot or a loop turn.
TickGoto(rec) ==
  [rec EXCEPT !.pc = IF rec.dels # <<>> THEN "cleanup.delete"
                     ELSE IF rec.dems # <<>> THEN "cleanup.demote"
                     ELSE "cleanup.cap"]

\* cleanupExpiredItems, the Range that fills keysToDelete and keysToDemote.
TickSnapshot(tie) ==
  LET t == threads[Ticker]
      lc == localCache
      keysToDelete == {k \in DOMAIN lc : lc[k].ExpireTime <= now}
      keysToDemote == {k \in (DOMAIN lc) \ keysToDelete :
                         ShouldDemote(config.DemotionStrategy, lc[k], now)}
  IN /\ t.pc = "idle"
     /\ t.calls < CallBudget(Ticker)
     /\ cleanupRoutine = "select"
     /\ Goto(Ticker, TickGoto([t EXCEPT
                                 !.op = "cleanupExpiredItems", !.calls = @ + 1,
                                 !.dels = Snapshot(lc, RangeOrder(keysToDelete, tie)),
                                 !.dems = Snapshot(lc, RangeOrder(keysToDemote, tie))]))
     /\ UNCHANGED <<Quiet, localCache, itemCount, redis>>

\* cleanupExpiredItems, one turn of the loop over keysToDelete.
TickDelete ==
  LET t == threads[Ticker]
      e == Head(t.dels)
  IN /\ t.pc = "cleanup.delete"
     /\ localCache' = Remove(localCache, e.key)
     /\ itemCount' = itemCount - 1
     /\ Goto(Ticker, TickGoto([t EXCEPT !.dels = Tail(@)]))
     /\ UNCHANGED <<Quiet, redis>>

\* cleanupExpiredItems, one turn of the loop over keysToDemote: the key is
\* loaded again and the entry found is spilled and deleted.
TickDemote ==
  LET t == threads[Ticker]
      e == Head(t.dems)
      lc == localCache
  IN /\ t.pc = "cleanup.demote"
     /\ IF e.key \in DOMAIN lc
        THEN /\ redis' = IF Spills(lc[e.key], TRUE)
                         THEN RedisSet(redis, e.key, Marshal(lc[e.key]),
                                       lc[e.key].ExpireTime - now, now)
                         ELSE redis
             /\ localCache' = Remove(lc, e.key)
             /\ itemCount' = itemCount - 1
        ELSE UNCHANGED <<localCache, itemCount, redis>>
     /\ Goto(Ticker, TickGoto([t EXCEPT !.dems = Tail(@)]))
     /\ UNCHANGED Quiet

\* cleanupExpiredItems, the cap check that ends the pass.
TickCap ==
  LET t == threads[Ticker]
  IN /\ t.pc = "cleanup.cap"
     /\ Goto(Ticker, AfterStore(t, itemCount, "idle"))
     /\ UNCHANGED <<Quiet, localCache, itemCount, redis>>

\* The number of entries the running evictLRU was asked to evict.
EvictCount(th) == IF th = Ticker THEN itemCount - config.MaxL1Size ELSE 1

NextRace ==
  \/ \E th \in Callers, op \in {"Set", "Get", "Delete"}, key \in Keys : Begin(th, op, key)
  \/ \E th \in Callers : SetStore(th)
  \/ \E th \in Callers : SetRedis(th)
  \/ \E th \in Callers : GetLoad(th)
  \/ \E th \in Callers : GetRedis(th)
  \/ \E th \in Callers : GetPromote(th)
  \/ \E th \in Callers : GetWriteBack(th)
  \/ \E th \in Callers : DeleteLocal(th)
  \/ \E th \in Callers : DeleteRedis(th)
  \/ \E th \in Callers \cup {Ticker}, tie \in Ties : EvictSnapshot(th, EvictCount(th), tie)
  \/ \E th \in Callers \cup {Ticker} : EvictVictim(th)
  \/ \E tie \in Ties : TickSnapshot(tie)
  \/ TickDelete
  \/ TickDemote
  \/ TickCap

SpecRace == InitRace /\ [][NextRace]_vars


\* ---------------------------------------------------------------- claims on goroutines
\* The calls of caller th that returned.
DoneBy(th) == threads[th].done

\* Caller th never worked on key.
NeverOn(th, key) == threads[th].op = "none" \/ threads[th].key # key

\* C14: when one goroutine calls Set(k, v, ttl) and then Get(k) before the
\* expiry, and no other caller works on k, the Get returns v under every
\* interleaving with the cleanup pass: a pass that snapshotted an older
\* expired or idle entry of k does not remove the freshly written one.
C14_SetThenGet ==
  LET a == DoneBy("A")
  IN (/\ Len(a) = 2
      /\ a[1].op = "Set" /\ a[2].op = "Get" /\ a[1].key = a[2].key
      /\ NeverOn("B", a[1].key))
     => /\ a[2].found
        /\ a[2].value \in {a[1].item.Value, RoundTrip(a[1].item.Value)}


\* Caller th made one call, Set(key, ...), and it returned.
OnlySet(th, key) ==
  /\ threads[th].pc = "idle"
  /\ Len(DoneBy(th)) = 1
  /\ DoneBy(th)[1].op = "Set"
  /\ DoneBy(th)[1].key = key

\* C15: when two goroutines call Set(k, v1, ...) and Set(k, v2, ...) at the
\* same time with both tiers enabled and Redis up, L1 and L2 hold the value
\* of the same Set once both calls returned.
C15_SetsAgree ==
  \A k \in Keys :
    (/\ config.EnableL1Cache /\ config.EnableL2Cache
     /\ OnlySet("A", k) /\ OnlySet("B", k)
     /\ k \in DOMAIN localCache /\ RedisLive(redis, k, now))
    => \E th \in Callers :
         /\ localCache[k].Value = RaceValue(th)
         /\ Unmarshal(redis[k].data).Value = RoundTrip(RaceValue(th))


\* Goroutine th takes the step that handles the next victim of its evictLRU.
EvictsVictim(th) ==
  /\ threads[th].pc = "evictLRU.loop"
  /\ threads'[th] # threads[th]

\* C17: evictLRU skips a victim that changed after the snapshot (removed by
\* Delete, Get or the cleanup pass, or overwritten by Set): it writes no
\* snapshotted envelope to L2, removes no newer L1 entry and leaves itemCount
\* alone, so a key whose Delete completed is not in L2 again.
C17_EvictSkipsChanged ==
  [][\A th \in Callers \cup {Ticker} :
       (EvictsVictim(th) /\ ~SameObject(localCache, Head(threads[th].victims)))
       => /\ redis' = redis
          /\ localCache' = localCache
          /\ itemCount' = itemCount]_vars


\* The entry the cleanup pass removes next, as its Range saw it.
TickEntry ==
  IF threads[Ticker].pc = "cleanup.delete"
  THEN Head(threads[Ticker].dels)
  ELSE Head(threads[Ticker].dems)

\* The cleanup pass takes a step of its delete loop or of its demote loop.
TickRemoves ==
  /\ threads[Ticker].pc \in {"cleanup.delete", "cleanup.demote"}
  /\ threads'[Ticker] # threads[Ticker]

\* C18: the cleanup pass skips a key that was modified after its snapshot:
\* when a key it classified as expired or as to demote was overwritten by a
\* Set or touched by a Get before the removal step, the key stays in L1 with
\* its new envelope and itemCount is not decremented for it.
C18_TickSkipsModified ==
  [][(/\ TickRemoves
      /\ TickEntry.key \in DOMAIN localCache
      /\ localCache[TickEntry.key] # TickEntry.item)
     => /\ localCache' = localCache
        /\ itemCount' = itemCount]_vars


\* No goroutine is inside a call.
Quiescent == \A th \in Callers \cup {Ticker} : threads[th].pc = "idle"

\* C21: itemCount tracks L1 exactly: whenever no call is in progress,
\* itemCount is the number of keys in the L1 map and is not negative, after
\* every sequence of calls and after every interleaving of callers with the
\* cleanup pass.
C21_ItemCountExact ==
  Quiescent => /\ itemCount = Cardinality(DOMAIN localCache)
               /\ itemCount >= 0


\* ---------------------------------------------------------------- a read overtaken
\* The interleavings of SpecRace in which caller A reads an envelope from
\* Redis in a Get, caller B then runs a Delete or a Set of the same key from
\* start to return, and only then A goes on with its promotion and its
\* write-back.  The cleanup goroutine does not run.
Reader == "A"

Overtaker == "B"

InitOvertaken == InitRace /\ config.EnableL2Cache

\* The reader holds the envelope it read and has not promoted it yet.
ReadPending == threads[Reader].pc = "Get.promote"

\* The call of the overtaker returned.
Overtaken == threads[Overtaker].pc = "idle" /\ threads[Overtaker].calls = 1

NextOvertaken ==
  \/ \E key \in Keys : threads[Reader].calls = 0 /\ Begin(Reader, "Get", key)
  \/ GetLoad(Reader)
  \/ GetRedis(Reader)
  \/ \E op \in {"Delete", "Set"} :
       ReadPending /\ Begin(Overtaker, op, threads[Reader].key)
  \/ SetStore(Overtaker)
  \/ SetRedis(Overtaker)
  \/ DeleteLocal(Overtaker)
  \/ DeleteRedis(Overtaker)
  \/ \E tie \in Ties : EvictSnapshot(Overtaker, EvictCount(Overtaker), tie)
  \/ EvictVictim(Overtaker)
  \/ Overtaken /\ GetPromote(Reader)
  \/ \E tie \in Ties : Overtaken /\ EvictSnapshot(Reader, EvictCount(Reader), tie)
  \/ Overtaken /\ EvictVictim(Reader)
  \/ Overtaken /\ GetWriteBack(Reader)

SpecOvertaken == InitOvertaken /\ [][NextOvertaken]_vars

\* What a Get(key) issued now would return.
LaterGet(key) == Get(Cache, key, CHOOSE tie \in Ties : TRUE, TRUE).ret

\* C22: a Get never reinstates a superseded envelope: when Get(k) has read
\* an envelope from L2 and another goroutine completes Delete(k) or
\* Set(k, v') before the promotion and the write-back (the schedules of
\* SpecOvertaken), then once both calls returned a later Get(k) misses after
\* the Delete and returns v' after the Set.
C22_NoReinstatement ==
  (/\ Quiescent
   /\ Len(DoneBy(Reader)) = 1
   /\ Len(DoneBy(Overtaker)) = 1)
  => IF DoneBy(Overtaker)[1].op = "Delete"
     THEN ~LaterGet(DoneBy(Reader)[1].key).found
     ELSE /\ LaterGet(DoneBy(Reader)[1].key).found
          /\ LaterGet(DoneBy(Reader)[1].key).value
               \in {RaceValue(Overtaker), RoundTrip(RaceValue(Overtaker))}

\* Some tier holds the value of the last Set of key: L1 holds the value, or
\* Redis holds a live envelope with its JSON text.
HeldBySomeTier(key) ==
  \/ /\ key \in DOMAIN localCache
     /\ localCache[key].Value = written[key].v
  \/ /\ RedisLive(redis, key, now)
     /\ redis[key].data.value = MarshalValue(written[key].v)

\* C23: with both tiers enabled and Redis up, in every sequential execution
\* a key written by Set(k, v, ttl) is held by at least one tier with value v
\* at every moment before t0 + ttl, until a Set, Delete or Clear touches k:
\* eviction and demotion only move entries between the tiers.
C23_NoLiveEntryLost ==
  \A key \in Keys :
    (/\ config.EnableL1Cache /\ config.EnableL2Cache
     /\ ~redisClosed
     /\ written[key].set
     /\ now < written[key].t0 + written[key].ttl)
    => HeldBySomeTier(key)

\* An eviction or a demotion took a live written entry out of L1 and Redis
\* holds it.
C23_Witness ==
  /\ config.EnableL1Cache /\ config.EnableL2Cache
  /\ \E e \in last.removed :
       /\ e.why \in {"evicted", "demoted"}
       /\ written[e.key].set
       /\ now < written[e.key].t0 + written[e.key].ttl
       /\ e.key \notin DOMAIN localCache
       /\ RedisLive(redis, e.key, now)
       /\ HeldBySomeTier(e.key)


\* The read of key stored the touched envelope in L1: it is there afterwards,
\* or the cap check of the same call evicted it again.
StoredInL1(key) ==
  \/ /\ key \in DOMAIN localCache'
     /\ localCache'[key] = L2Updated(key)
  \/ /\ key \notin DOMAIN localCache'
     /\ [key |-> key, item |-> L2Updated(key), why |-> "evicted"] \in last'.removed

====
